---- MODULE Spec2Model ----
(***************************************************************************)
(* Page-packing engine of pas_photo: PageGrid and calculateLayout          *)
(* (src/utils/imageProcessor.ts, lines 61-199) and the two invocations     *)
(* App.tsx makes of it (pages and simulatedPages).                         *)
(*                                                                         *)
(* Lengths are whole millimetres.  The opaque pass-through fields of a     *)
(* photo (imageUrl, backgroundColor, originalFile) take no part in any     *)
(* placement decision and are left out of the records.                     *)
(***************************************************************************)
EXTENDS Integers, Sequences, FiniteSets, TLC

\* ------------------------------------------------------------------ bounds
MaxPaperW == 4
MaxPaperH == 3
MaxMargin == 1
MaxSpacing == 1
MaxItemW == 2
MaxItemH == 2
MaxBatches == 3
MaxQty == 2
MaxRequests == 4
\* pages the open-ended while loop may create beyond one per request
MaxExtraPages == 2

VARIABLES
    photos,          \* argument photos: sequence of PhotoItem
    paperSize,       \* argument paperSize
    config,          \* argument config: pageMargin, itemSpacing
    pc,              \* position inside calculateLayout
    printableWidth,  \* local const printableWidth
    printableHeight, \* local const printableHeight
    pages,           \* local const pages: PageGrid[]
    todoList,        \* local const todoList
    globalIndex,     \* local let globalIndex
    itemIdx,         \* position of todoList.forEach (1-based)
    pageIndex,       \* local let pageIndex of the current forEach callback
    result,          \* the returned PageLayout[]
    prev             \* the previous call: its arguments, its result, and how
                     \* the arguments of the current call derive from them

vars == <<photos, paperSize, config, pc, printableWidth, printableHeight,
          todoList, globalIndex, itemIdx, pageIndex, result, prev, pages>>

\* ----------------------------------------------------------- pure helpers
\* mutant: the second argument is ignored
MinFirst(a, b) == a

\* Math.min
Min(a, b) == IF a < b THEN a ELSE b

Max(a, b) == IF a > b THEN a ELSE b

RECURSIVE SumQty(_)
SumQty(ps) == IF ps = <<>> THEN 0 ELSE Head(ps).quantity + SumQty(Tail(ps))

\* ---------------------------------------------------------------- PageGrid
\* The occupancy mask grid: boolean[] of width * height cells is held row by
\* row: grid[row] is the set of the columns col whose cell, the one at index
\* row * width + col, is true.

\* constructor: all cells free, no items
NewPageGrid(width, height, pageNumber, margin, spacing) ==
    [width |-> width, height |-> height, pageNumber |-> pageNumber,
     margin |-> margin, spacing |-> spacing, items |-> <<>>,
     grid |-> [row \in 0..(height - 1) |-> {}]]

\* this.grid[index]; an index past the end of the array reads as not true
GridAt(pg, index) ==
    /\ index < pg.width * pg.height
    /\ (index % pg.width) \in pg.grid[index \div pg.width]

\* the indices whose cell is true
Cells(pg) ==
    UNION {{row * pg.width + col : col \in pg.grid[row]} : row \in DOMAIN pg.grid}

\* mutant: only the top-left cell of the region is inspected
IsRegionFreeCornerOnly(pg, x, y, w, h) ==
    IF x + w > pg.width \/ y + h > pg.height THEN FALSE
    ELSE ~GridAt(pg, y * pg.width + x)

IsRegionFree(pg, x, y, w, h) ==
    IF x + w > pg.width \/ y + h > pg.height THEN FALSE
    ELSE \A dy \in 0..(h - 1) : \A dx \in 0..(w - 1) :
            ~GridAt(pg, (y + dy) * pg.width + (x + dx))

\* the grid after markRegion(x, y, w, h); a write past the end of the array
\* is not kept, no read reaches it
MarkRegion(pg, x, y, w, h) ==
    LET written == {(y + dy) * pg.width + (x + dx) :
                       dy \in 0..(h - 1), dx \in 0..(w - 1)}
        rows == {index \div pg.width : index \in written}
    IN  [row \in 0..(pg.height - 1) |->
            IF row \notin rows THEN pg.grid[row]
            ELSE pg.grid[row] \cup
                    {col \in 0..(pg.width - 1) :
                        (row * pg.width + col) \in written}]

\* candidate positions of addItem's two loops that pass isRegionFree
FreePositions(pg, itemW, itemH) ==
    {p \in (0..(pg.width - itemW)) \X (0..(pg.height - itemH)) :
        IsRegionFree(pg, p[1], p[2], itemW, itemH)}

\* p is reached before q by the loops: outer loop over y, inner over x
ScanBefore(p, q) == p[2] < q[2] \/ (p[2] = q[2] /\ p[1] < q[1])

\* the position no scan reaches: what a loop that found nothing yields
NoPosition == <<-1, -1>>

\* mutant: the inner loop stops one column early (x < width - itemW)
RowHasFreeStrict(pg, y, itemW, itemH) ==
    \E x \in 0..(pg.width - itemW - 1) : IsRegionFree(pg, x, y, itemW, itemH)

\* the inner loop over x finds a free region in row y
RowHasFree(pg, y, itemW, itemH) ==
    \E x \in 0..(pg.width - itemW) : IsRegionFree(pg, x, y, itemW, itemH)

\* mutant: the last free candidate of the scan order is taken
FirstFreeLastFit(pg, itemW, itemH) ==
    IF FreePositions(pg, itemW, itemH) = {} THEN NoPosition
    ELSE CHOOSE p \in FreePositions(pg, itemW, itemH) :
            \A q \in FreePositions(pg, itemW, itemH) : p = q \/ ScanBefore(q, p)

\* the first candidate the loops reach, NoPosition if they reach none: the
\* outer loop stops in the first row y that has a free region, or past the
\* last row height - itemH; the inner loop stops at the first free x
FirstFree(pg, itemW, itemH) ==
    LET last == pg.height - itemH
        y == CHOOSE r \in 0..(last + 1) :
                /\ r = last + 1 \/ RowHasFree(pg, r, itemW, itemH)
                /\ \A r2 \in 0..(r - 1) : ~RowHasFree(pg, r2, itemW, itemH)
        x == CHOOSE c \in 0..(pg.width - itemW) :
                /\ IsRegionFree(pg, c, y, itemW, itemH)
                /\ \A c2 \in 0..(c - 1) : ~IsRegionFree(pg, c2, y, itemW, itemH)
    IN  IF last < 0 THEN NoPosition
        ELSE IF y = last + 1 THEN NoPosition
        ELSE <<x, y>>

\* mutant: the item is pushed before the scan, and stays when the scan fails
AddItemPushOnFailure(pg, photoId, itemW, itemH, gIndex) ==
    LET p == FirstFree(pg, itemW, itemH)
        x == p[1]
        y == p[2]
        item == [id |-> <<photoId, gIndex>>, photoId |-> photoId,
                 x |-> x + pg.margin, y |-> y + pg.margin,
                 width |-> itemW, height |-> itemH]
        pushed == [pg EXCEPT !.items = Append(pg.items, item)]
    IN  IF p = NoPosition
        THEN [ok |-> FALSE, page |-> pushed]
        ELSE [ok |-> TRUE,
              page |-> [pushed EXCEPT !.grid =
                           MarkRegion(pg, x, y,
                                      Min(itemW + pg.spacing, pg.width - x),
                                      Min(itemH + pg.spacing, pg.height - y))]]

\* the part of addItem around its loops: p is the position the loops stopped
\* at, NoPosition if they ran to the end
AddItemAt(pg, p, photoId, itemW, itemH, gIndex) ==
    LET occupyW == itemW + pg.spacing
        occupyH == itemH + pg.spacing
    IN  IF p = NoPosition
        THEN [ok |-> FALSE, page |-> pg]
        ELSE LET x == p[1]
                 y == p[2]
                 markW == Min(occupyW, pg.width - x)
                 markH == Min(occupyH, pg.height - y)
                 item == [id |-> <<photoId, gIndex>>, photoId |-> photoId,
                          x |-> x + pg.margin, y |-> y + pg.margin,
                          width |-> itemW, height |-> itemH]
             IN  [ok |-> TRUE,
                  page |-> [pg EXCEPT !.items = Append(pg.items, item),
                                      !.grid = MarkRegion(pg, x, y, markW, markH)]]

\* addItem: its return value (ok) and the PageGrid afterwards (page); the
\* loops run once
AddItem(pg, photoId, itemW, itemH, gIndex) ==
    CHOOSE r \in {AddItemAt(pg, p, photoId, itemW, itemH, gIndex) :
                     p \in {FirstFree(pg, itemW, itemH)}} : TRUE

\* --------------------------------------------------------- calculateLayout
\* mutant: the margin is subtracted once instead of on both sides
PrintableOneMargin(paperMm, pageMargin) == paperMm - pageMargin

Printable(paperMm, pageMargin) == paperMm - (pageMargin * 2)

\* mutant: strict comparison lets a zero-sized printable area through
MisconfiguredStrict(pw, ph) == pw < 0 \/ ph < 0

Misconfigured(pw, ph) == pw <= 0 \/ ph <= 0

\* mutant: the index is not advanced inside a batch
RequestsOfSameIndex(photo, first) ==
    [i \in 1..photo.quantity |->
        [photoId |-> photo.id, width |-> photo.width,
         height |-> photo.height, uniqueId |-> first]]

\* mutant: the inner loop stops one short
RequestsOfOneShort(photo, first) ==
    [i \in 1..(photo.quantity - 1) |->
        [photoId |-> photo.id, width |-> photo.width,
         height |-> photo.height, uniqueId |-> first + i - 1]]

\* the requests one photo contributes, uniqueId starting at first
RequestsOf(photo, first) ==
    [i \in 1..photo.quantity |->
        [photoId |-> photo.id, width |-> photo.width,
         height |-> photo.height, uniqueId |-> first + i - 1]]

RECURSIVE ExpandFrom(_, _)
ExpandFrom(ps, first) ==
    IF ps = <<>> THEN <<>>
    ELSE RequestsOf(Head(ps), first)
           \o ExpandFrom(Tail(ps), first + Head(ps).quantity)

\* mutant: the batches are expanded last to first
ExpandPhotosReversed(ps) ==
    ExpandFrom([k \in 1..Len(ps) |-> ps[Len(ps) + 1 - k]], 0)

\* photos.forEach(photo => for (i < quantity) todoList.push(...))
ExpandPhotos(ps) == ExpandFrom(ps, 0)

\* mutant: the returned pages carry the size of the grid, not of the paper
ToLayoutGridSize(pgs, paper) ==
    [k \in 1..Len(pgs) |->
        [items |-> pgs[k].items, pageNumber |-> pgs[k].pageNumber,
         width |-> pgs[k].width, height |-> pgs[k].height]]

\* pages.map(p => ({items, pageNumber, width, height}))
ToLayout(pgs, paper) ==
    [k \in 1..Len(pgs) |->
        [items |-> pgs[k].items, pageNumber |-> pgs[k].pageNumber,
         width |-> paper.widthMm, height |-> paper.heightMm]]

\* ------------------------------------------------------------------ inputs
PhotoSizes == (1..MaxItemW) \X (1..MaxItemH)

\* a batch list: ids are distinct (position in the list), quantity positive
MkPhotos(sz, qty) ==
    [k \in DOMAIN sz |->
        [id |-> k, width |-> sz[k][1], height |-> sz[k][2], quantity |-> qty[k]]]

AllBatchLists ==
    UNION {{MkPhotos(sz, qty) : sz \in [1..n -> PhotoSizes],
                                qty \in [1..n -> 1..MaxQty]} : n \in 0..MaxBatches}

BatchLists == {ps \in AllBatchLists : SumQty(ps) <= MaxRequests}

NoPrev == [relation |-> "none", photos |-> <<>>, result |-> <<>>, changed |-> 0]

Init ==
    /\ photos \in BatchLists
    /\ paperSize \in [widthMm : 2..MaxPaperW, heightMm : 2..MaxPaperH]
    /\ config \in [pageMargin : 0..MaxMargin, itemSpacing : 0..MaxSpacing]
    /\ pc = "start"
    /\ printableWidth = 0
    /\ printableHeight = 0
    /\ pages = <<>>
    /\ todoList = <<>>
    /\ globalIndex = 0
    /\ itemIdx = 1
    /\ pageIndex = 0
    /\ result = <<>>
    /\ prev = NoPrev


\* ----------------------------------------------------------------- actions
\* mutant: the page array outlives the call
KeptPages(old) == old

\* const pages: PageGrid[] = [] -- local to one call
FreshPages(old) == <<>>

\* getPage(index): the page array after the lazy creation
GetPage(pgs, index) ==
    IF index + 1 > Len(pgs)
    THEN Append(pgs, NewPageGrid(printableWidth, printableHeight, index + 1,
                                 config.pageMargin, config.itemSpacing))
    ELSE pgs

\* entry of calculateLayout up to the misconfiguration return
Start ==
    /\ pc = "start"
    /\ LET pw == Printable(paperSize.widthMm, config.pageMargin)
           ph == Printable(paperSize.heightMm, config.pageMargin)
       IN  /\ printableWidth' = pw
           /\ printableHeight' = ph
           /\ IF Misconfigured(pw, ph)
              THEN /\ pc' = "done"
                   /\ result' = <<>>
                   /\ pages' = pages
              ELSE /\ pc' = "expand"
                   /\ result' = result
                   /\ pages' = FreshPages(pages)
    /\ UNCHANGED <<photos, paperSize, config, todoList, globalIndex,
                   itemIdx, pageIndex, prev>>

\* expansion of the batches into todoList
Expand ==
    /\ pc = "expand"
    /\ todoList' = ExpandPhotos(photos)
    /\ globalIndex' = Len(todoList')
    /\ itemIdx' = 1
    /\ pageIndex' = 0
    /\ pc' = "place"
    /\ UNCHANGED <<photos, paperSize, config, printableWidth, printableHeight,
                   pages, result, prev>>

\* one iteration of while (!placed) for the current todoList element
TryPlace ==
    /\ pc = "place"
    /\ itemIdx <= Len(todoList)
    /\ pageIndex + 1 > Len(pages) => Len(pages) < Len(todoList) + MaxExtraPages
    /\ LET item == todoList[itemIdx]
           pgs == GetPage(pages, pageIndex)
           r == AddItem(pgs[pageIndex + 1], item.photoId, item.width,
                        item.height, item.uniqueId)
       IN  /\ pages' = [pgs EXCEPT ![pageIndex + 1] = r.page]
           /\ IF r.ok
              THEN /\ itemIdx' = itemIdx + 1
                   /\ pageIndex' = 0
              ELSE /\ itemIdx' = itemIdx
                   /\ pageIndex' = pageIndex + 1
    /\ UNCHANGED <<photos, paperSize, config, pc, printableWidth,
                   printableHeight, todoList, globalIndex, result, prev>>

\* the final pages.map and return
Return ==
    /\ pc = "place"
    /\ itemIdx > Len(todoList)
    /\ result' = ToLayout(pages, paperSize)
    /\ pc' = "done"
    /\ UNCHANGED <<photos, paperSize, config, printableWidth, printableHeight,
                   pages, todoList, globalIndex, itemIdx, pageIndex, prev>>

\* a second call: everything but the arguments starts afresh
CallAgain(newPhotos, relation, changed) ==
    /\ pc = "done"
    /\ prev.relation = "none"
    /\ prev' = [relation |-> relation, photos |-> photos, result |-> result,
                changed |-> changed]
    /\ photos' = newPhotos
    /\ pc' = "start"
    /\ todoList' = <<>>
    /\ globalIndex' = 0
    /\ itemIdx' = 1
    /\ pageIndex' = 0
    /\ result' = <<>>
    /\ UNCHANGED <<paperSize, config, printableWidth, printableHeight, pages>>

\* the layout is recomputed with the same arguments
RecallSame == CallAgain(photos, "same", 0)

\* the layout is recomputed after one batch's quantity grew by one
RecallMore ==
    \E k \in 1..Len(photos) :
        CallAgain([photos EXCEPT ![k].quantity = @ + 1], "more", k)

\* simulatedPages: the layout of [...photos, simulatedPhoto]
RecallAppend ==
    \E sz \in PhotoSizes :
        CallAgain(Append(photos, [id |-> 0, width |-> sz[1], height |-> sz[2],
                                  quantity |-> 1]), "append", Len(photos) + 1)

Next == Start \/ Expand \/ TryPlace \/ Return
          \/ RecallSame \/ RecallMore \/ RecallAppend

Spec == Init /\ [][Next]_vars

\* ------------------------------------------------- mixed-size single prints
\* batches of quantity one over sizes of differing width and height, on one
\* printable area large enough to leave room around an item
MixedMaxBatches == 5

MixedSizes == {<<1, 3>>, <<1, 1>>, <<1, 2>>, <<3, 1>>, <<2, 1>>}

MixedBatchLists ==
    UNION {{MkPhotos(sz, [k \in 1..n |-> 1]) : sz \in [1..n -> MixedSizes]} :
              n \in 0..MixedMaxBatches}

InitMixed ==
    /\ photos \in MixedBatchLists
    /\ paperSize = [widthMm |-> 7, heightMm |-> 6]
    /\ config = [pageMargin |-> 0, itemSpacing |-> 1]
    /\ pc = "start"
    /\ printableWidth = 0
    /\ printableHeight = 0
    /\ pages = <<>>
    /\ todoList = <<>>
    /\ globalIndex = 0
    /\ itemIdx = 1
    /\ pageIndex = 0
    /\ result = <<>>
    /\ prev = NoPrev

SpecMixed == InitMixed /\ [][Next]_vars

\* ------------------------------------------------ the A4 sheet of 3x4 prints
\* the default configuration of the application: A4 paper, the default
\* margin and spacing, one batch of the 3x4 cm size
PAGE_MARGIN_MM == 5

ITEM_SPACING_MM == 2

A4 == [widthMm |-> 210, heightMm |-> 297]

Photo3x4 == <<30, 40>>

A4Quantities == {35, 40}

InitA4 ==
    /\ photos \in {MkPhotos(<<Photo3x4>>, <<q>>) : q \in A4Quantities}
    /\ paperSize = A4
    /\ config = [pageMargin |-> PAGE_MARGIN_MM, itemSpacing |-> ITEM_SPACING_MM]
    /\ pc = "start"
    /\ printableWidth = 0
    /\ printableHeight = 0
    /\ pages = <<>>
    /\ todoList = <<>>
    /\ globalIndex = 0
    /\ itemIdx = 1
    /\ pageIndex = 0
    /\ result = <<>>
    /\ prev = NoPrev

SpecA4 == InitA4 /\ [][Next]_vars

\* ============================================================== properties
\* the layout as it stands: the page grids while the call runs, the returned
\* pages once it has returned
CurLayout == IF pc = "done" THEN result ELSE ToLayout(pages, paperSize)

\* the rectangles [x, x+width) x [y, y+height) of a and b intersect
Overlap(a, b) ==
    /\ a.x < b.x + b.width
    /\ b.x < a.x + a.width
    /\ a.y < b.y + b.height
    /\ b.y < a.y + a.height

\* distance between the rectangles of a and b along the axis that separates
\* them most (negative when they intersect)
Gap(a, b) ==
    Max(Max(b.x - (a.x + a.width), a.x - (b.x + b.width)),
        Max(b.y - (a.y + a.height), a.y - (b.y + b.height)))

\* the item's rectangle, or the clearance marked with it, reaches an edge of
\* the printable area
TouchesBoundary(a) ==
    \/ a.x = config.pageMargin
    \/ a.y = config.pageMargin
    \/ a.x + a.width + config.itemSpacing >= paperSize.widthMm - config.pageMargin
    \/ a.y + a.height + config.itemSpacing >= paperSize.heightMm - config.pageMargin

ItemCount(layout) ==
    LET RECURSIVE Cnt(_)
        Cnt(k) == IF k = 0 THEN 0 ELSE Len(layout[k].items) + Cnt(k - 1)
    IN  Cnt(Len(layout))

\* every request's width and height fit the printable area
AllFit ==
    \A k \in 1..Len(photos) :
        /\ photos[k].width <= paperSize.widthMm - 2 * config.pageMargin
        /\ photos[k].height <= paperSize.heightMm - 2 * config.pageMargin

\* the margins leave no printable area
NoPrintableArea ==
    \/ paperSize.widthMm - 2 * config.pageMargin <= 0
    \/ paperSize.heightMm - 2 * config.pageMargin <= 0

\* C1 -- No-overlap: on every page, at every point of a call and in the
\* returned layout, no two distinct placed items have intersecting rectangles.
C1_NoOverlap ==
    \A k \in 1..Len(CurLayout) :
        \A i, j \in 1..Len(CurLayout[k].items) :
            i # j => ~Overlap(CurLayout[k].items[i], CurLayout[k].items[j])

\* a returned page holding three items, not all of one size, packed with a
\* positive spacing
C1_Witness ==
    /\ pc = "done"
    /\ config.itemSpacing > 0
    /\ \E k \in 1..Len(result) :
          /\ Len(result[k].items) >= 3
          /\ \E i, j \in 1..Len(result[k].items) :
                result[k].items[i].width # result[k].items[j].width

\* C2 -- Spacing respected: two items on one page are at least itemSpacing
\* apart, unless one of them (with its clearance) touches the boundary of the
\* printable area.
C2_SpacingRespected ==
    \A k \in 1..Len(CurLayout) :
        \A i, j \in 1..Len(CurLayout[k].items) :
            (i # j /\ ~TouchesBoundary(CurLayout[k].items[i])
                   /\ ~TouchesBoundary(CurLayout[k].items[j]))
               => Gap(CurLayout[k].items[i], CurLayout[k].items[j])
                      >= config.itemSpacing

\* C3 -- Completeness: a call that returns with a positive printable area has
\* placed every expanded request exactly once, and as many items as the
\* quantities add up to.
C3_Completeness ==
    (pc = "done" /\ printableWidth > 0 /\ printableHeight > 0) =>
        /\ ItemCount(result) = SumQty(photos)
        /\ \A u \in 0..(SumQty(photos) - 1) :
              Cardinality(UNION {{<<k, i>> : i \in {j \in 1..Len(result[k].items) :
                                                      result[k].items[j].id[2] = u}} :
                                    k \in 1..Len(result)}) = 1

\* a returned layout of two pages or more for three requests or more
C3_Witness ==
    /\ pc = "done"
    /\ Len(result) >= 2
    /\ SumQty(photos) >= 3
    /\ ItemCount(result) = SumQty(photos)

\* C4 -- Unsatisfiable request: the call stops at the first brand-new page
\* that refuses a request, so at most one page is ever left without an item.
C4_StopsOnUnsatisfiable ==
    Cardinality({k \in 1..Len(pages) : pages[k].items = <<>>}) <= 1

\* C5 -- Determinism: a second call with the same arguments returns the same
\* pages with the same items at the same positions.
C5_Determinism ==
    (pc = "done" /\ prev.relation = "same") => result = prev.result

\* two calls with the same arguments have both returned two pages or more
C5_Witness ==
    /\ pc = "done"
    /\ prev.relation = "same"
    /\ Len(prev.result) >= 2
    /\ Len(result) >= 2

\* the second call's arguments are the first call's with one request appended
\* at the end of the expansion
OneAppended ==
    \/ prev.relation = "append"
    \/ prev.relation = "more" /\ prev.changed = Len(prev.photos)

\* C6 (as claimed) -- Monotonic page growth: raising the quantity of any
\* batch by one never lowers the number of returned pages.
C6_MonotonicAnyBatch ==
    (pc = "done" /\ prev.relation = "more" /\ AllFit)
        => Len(result) >= Len(prev.result)

\* C6 (amended) -- Monotonic page growth: raising the quantity of the last
\* batch by one never lowers the number of returned pages.
C6_MonotonicLastBatch ==
    (pc = "done" /\ prev.relation = "more" /\ AllFit
        /\ prev.changed = Len(prev.photos))
        => Len(result) >= Len(prev.result)

\* the last of several batches grew by one and the layout gained a page
C6_Witness ==
    /\ pc = "done"
    /\ prev.relation = "more"
    /\ AllFit
    /\ Len(prev.photos) >= 2
    /\ prev.changed = Len(prev.photos)
    /\ Len(result) > Len(prev.result)
    /\ Len(prev.result) >= 1

\* C7 -- Prefix stability: with one request appended, every request of the
\* first call is placed by the second call on the same page number, at the
\* same x and y, under the same id.
C7_PrefixStable ==
    ((pc = "done" \/ (pc = "place" /\ itemIdx > SumQty(prev.photos)))
        /\ OneAppended)
    => \A k \in 1..Len(prev.result) :
          \A i \in 1..Len(prev.result[k].items) :
              /\ k <= Len(CurLayout)
              /\ CurLayout[k].pageNumber = prev.result[k].pageNumber
              /\ \E j \in 1..Len(CurLayout[k].items) :
                    /\ CurLayout[k].items[j].id = prev.result[k].items[i].id
                    /\ CurLayout[k].items[j].x = prev.result[k].items[i].x
                    /\ CurLayout[k].items[j].y = prev.result[k].items[i].y

\* the second call has returned; its appended request opened a new page
\* behind the two or more requests of the first call
C7_Witness ==
    /\ pc = "done"
    /\ prev.relation = "append"
    /\ ItemCount(prev.result) >= 2
    /\ Len(result) = Len(prev.result) + 1

\* C8 -- Bounds: every placed item lies inside the printable area before the
\* margin offset and inside the margins of the paper after it.
C8_Bounds ==
    \A k \in 1..Len(CurLayout) :
        \A i \in 1..Len(CurLayout[k].items) :
            LET it == CurLayout[k].items[i]
                m == config.pageMargin
            IN  /\ m <= it.x
                /\ m <= it.y
                /\ it.x + it.width <= paperSize.widthMm - m
                /\ it.y + it.height <= paperSize.heightMm - m
                /\ it.x - m + it.width <= printableWidth
                /\ it.y - m + it.height <= printableHeight

\* with a positive margin, an item ends exactly on the right margin line and
\* another one exactly on the bottom margin line
C8_Witness ==
    /\ pc = "done"
    /\ config.pageMargin > 0
    /\ \E k \in 1..Len(result) : \E i \in 1..Len(result[k].items) :
          result[k].items[i].x + result[k].items[i].width
              = paperSize.widthMm - config.pageMargin
    /\ \E k \in 1..Len(result) : \E i \in 1..Len(result[k].items) :
          result[k].items[i].y + result[k].items[i].height
              = paperSize.heightMm - config.pageMargin

\* C9 -- Misconfiguration: without a printable area the call creates no page,
\* attempts no placement and returns the empty sequence.
C9_Misconfiguration ==
    NoPrintableArea =>
        /\ pages = <<>>
        /\ todoList = <<>>
        /\ pc \in {"start", "done"}
        /\ result = <<>>

\* a call with batches to place has returned for lack of printable area
C9_Witness ==
    /\ NoPrintableArea
    /\ pc = "done"
    /\ photos # <<>>

\* C10 -- No empty pages: a page is created only for a request that is then
\* placed on it, so every page that exists holds at least one item.
C10_NoEmptyPages ==
    /\ \A k \in 1..Len(CurLayout) : Len(CurLayout[k].items) >= 1
    /\ (pc = "done" /\ photos = <<>>) => result = <<>>

\* C11 -- Page numbering: the k-th page carries pageNumber k, and a returned
\* page carries the width and height of the paper.
C11_PageNumbering ==
    /\ \A k \in 1..Len(pages) : pages[k].pageNumber = k
    /\ pc = "done" =>
          \A k \in 1..Len(result) :
              /\ result[k].pageNumber = k
              /\ result[k].width = paperSize.widthMm
              /\ result[k].height = paperSize.heightMm

\* two pages or more are returned for a paper with a positive margin
C11_Witness ==
    /\ pc = "done"
    /\ Len(result) >= 2
    /\ config.pageMargin > 0

\* the call has the arguments of the scenario with quantity q
Scenario(q) ==
    /\ photos = MkPhotos(<<Photo3x4>>, <<q>>)
    /\ paperSize = A4
    /\ config = [pageMargin |-> PAGE_MARGIN_MM, itemSpacing |-> ITEM_SPACING_MM]

\* the uniqueIds of the items of a page, in the order of the page
IndexesOn(page) == [i \in 1..Len(page.items) |-> page.items[i].id[2]]

\* C12 -- Concrete scenario: on A4 with margin 5 and spacing 2, 35 prints of
\* 30x40 return one page; 40 prints return two pages, requests 1..36 on the
\* first and 37..40 on the second, and the second page does not exist before
\* the 37th request is being placed.
C12_A4Scenario ==
    /\ (Scenario(35) /\ pc = "done") => Len(result) = 1
    /\ (Scenario(40) /\ pc = "done") =>
          /\ Len(result) = 2
          /\ IndexesOn(result[1]) = [i \in 1..36 |-> i - 1]
          /\ IndexesOn(result[2]) = [i \in 1..4 |-> 35 + i]
    /\ ((Scenario(35) \/ Scenario(40)) /\ pc = "place" /\ Len(pages) >= 2) =>
          /\ itemIdx >= 37
          /\ Len(pages[1].items) = 36

\* the call with 40 prints has returned
C12_Witness ==
    /\ Scenario(40)
    /\ pc = "done"
    /\ Len(result) = 2
    /\ ItemCount(result) = 40

\* the batch (1-based) that request u (0-based) of the expansion belongs to
BatchOf(u) ==
    CHOOSE k \in 1..Len(photos) :
        /\ SumQty(SubSeq(photos, 1, k - 1)) <= u
        /\ u < SumQty(SubSeq(photos, 1, k))

\* C13 -- Identity and order of requests: the expansion numbers the requests
\* 0, 1, 2, ... batch after batch; a placed item's id is the pair of its
\* photoId and that number; ids are unique over all pages; the items of a
\* page are in increasing number.
C13_IdentityAndOrder ==
    (pc \in {"place", "done"} /\ ~NoPrintableArea) =>
        /\ Len(todoList) = SumQty(photos)
        /\ \A i \in 1..Len(todoList) :
              /\ todoList[i].uniqueId = i - 1
              /\ todoList[i].photoId = photos[BatchOf(i - 1)].id
        /\ \A k \in 1..Len(CurLayout) : \A i \in 1..Len(CurLayout[k].items) :
              LET it == CurLayout[k].items[i]
              IN  /\ it.id = <<it.photoId, it.id[2]>>
                  /\ it.id[2] \in 0..(Len(todoList) - 1)
                  /\ it.photoId = todoList[it.id[2] + 1].photoId
                  /\ \A k2 \in 1..Len(CurLayout) :
                        \A i2 \in 1..Len(CurLayout[k2].items) :
                            CurLayout[k2].items[i2].id = it.id
                                => (k2 = k /\ i2 = i)
                  /\ \A i2 \in 1..(i - 1) : CurLayout[k].items[i2].id[2] < it.id[2]

\* a returned layout of two pages, from two batches or more, one of them of
\* quantity two or more
C13_Witness ==
    /\ pc = "done"
    /\ Len(photos) >= 2
    /\ \E k \in 1..Len(photos) : photos[k].quantity >= 2
    /\ Len(result) >= 2

\* ---- one iteration of the while loop, seen as a step
\* the step is an iteration of while (!placed)
PlaceStep ==
    /\ pc = "place"
    /\ pc' = "place"
    /\ itemIdx <= Len(todoList)
    /\ (itemIdx' # itemIdx \/ pageIndex' # pageIndex)

\* addItem returned true in the step
Succeeded == itemIdx' = itemIdx + 1

\* addItem returned false in the step
Failed == itemIdx' = itemIdx /\ pageIndex' = pageIndex + 1

\* the mask of page k before the step; a page not yet created is all free
GridBefore(k) == IF k <= Len(pages) THEN Cells(pages[k]) ELSE {}

\* the items of page k before the step
ItemsBefore(k) == IF k <= Len(pages) THEN pages[k].items ELSE <<>>

\* the indices of the cells of [x, x2) x [y, y2) in a mask of the printable
\* width
CellsOf(x, x2, y, y2) ==
    {cy * printableWidth + cx : cx \in x..(x2 - 1), cy \in y..(y2 - 1)}

\* no cell of [x, x+w) x [y, y+h) is occupied in mask g
RegionFreeIn(g, x, y, w, h) == CellsOf(x, x + w, y, y + h) \cap g = {}

\* the top-left positions that keep a w x h rectangle inside the grid
Candidates(w, h) == (0..(printableWidth - w)) \X (0..(printableHeight - h))

\* the item the step appended to page k
PlacedItem(k) == pages'[k].items[Len(pages'[k].items)]

\* the grid position of an item: its position without the margin offset
GridPos(it) == <<it.x - config.pageMargin, it.y - config.pageMargin>>

\* C14 -- First-fit, row-major: a successful addItem places the item on a
\* free in-bounds region such that every candidate before it in row-major
\* order holds an occupied cell; addItem fails only when no candidate is free.
C14_FirstFit ==
    [][PlaceStep =>
        LET k == pageIndex + 1
            w == todoList[itemIdx].width
            h == todoList[itemIdx].height
            g == GridBefore(k)
        IN  /\ Succeeded =>
                LET pos == GridPos(PlacedItem(k))
                IN  /\ pos \in Candidates(w, h)
                    /\ RegionFreeIn(g, pos[1], pos[2], w, h)
                    /\ \A q \in Candidates(w, h) :
                          ScanBefore(q, pos) => ~RegionFreeIn(g, q[1], q[2], w, h)
            /\ Failed =>
                \A q \in Candidates(w, h) : ~RegionFreeIn(g, q[1], q[2], w, h)
      ]_vars

\* a page holds an item below its first row and right of its first column,
\* and a request has failed on the first page
C14_Witness ==
    /\ pc = "place"
    /\ Len(pages) >= 2
    /\ pages[1].items # <<>>
    /\ \E i \in 1..Len(pages[1].items) :
          /\ pages[1].items[i].x > config.pageMargin
          /\ pages[1].items[i].y > config.pageMargin

\* C15 -- Page selection order: a request is placed on page k only if no
\* page before k has a free position for it, and a request never creates a
\* second page.
C15_PageSelection ==
    [][PlaceStep =>
        LET k == pageIndex + 1
            w == todoList[itemIdx].width
            h == todoList[itemIdx].height
        IN  /\ Succeeded =>
                \A j \in 1..(k - 1) : \A q \in Candidates(w, h) :
                    ~RegionFreeIn(Cells(pages[j]), q[1], q[2], w, h)
            /\ Len(pages') <= Len(pages) + 1
            /\ Len(pages') > Len(pages) =>
                \A j \in 1..Len(pages) : pages[j].items # <<>>
      ]_vars

\* the indices of the cells of the w x h rectangle at (x, y) and of its
\* clearance to the right and below, as far as they lie in the grid
Inflated(x, y, w, h) ==
    {cy * printableWidth + cx :
        cx \in {c \in x..(x + w + config.itemSpacing - 1) : c < printableWidth},
        cy \in {r \in y..(y + h + config.itemSpacing - 1) : r < printableHeight}}

\* C16 -- Effect of a successful placement: the mask of the page gains
\* exactly the cells of the item's rectangle inflated by the spacing and
\* clipped to the grid, its item list gains one item, no other page changes;
\* and no step of a run frees a cell.
C16_PlacementEffect ==
    [][/\ (PlaceStep /\ Succeeded) =>
            LET k == pageIndex + 1
                w == todoList[itemIdx].width
                h == todoList[itemIdx].height
                pos == GridPos(PlacedItem(k))
            IN  /\ Cells(pages'[k]) = GridBefore(k) \cup Inflated(pos[1], pos[2], w, h)
                /\ Len(pages'[k].items) = Len(ItemsBefore(k)) + 1
                /\ SubSeq(pages'[k].items, 1, Len(ItemsBefore(k))) = ItemsBefore(k)
                /\ Len(pages') = Max(Len(pages), k)
                /\ \A j \in 1..Len(pages) : j # k => pages'[j] = pages[j]
       /\ pc \in {"expand", "place"} =>
            \A j \in 1..Len(pages) :
                /\ j <= Len(pages')
                /\ Cells(pages[j]) \subseteq Cells(pages'[j])
      ]_vars

\* with a positive spacing, an item was placed whose clearance is clipped at
\* the right edge of the grid, on a page that already held an item
C16_Witness ==
    /\ pc = "place"
    /\ config.itemSpacing > 0
    /\ \E k \in 1..Len(pages) :
          /\ Len(pages[k].items) >= 2
          /\ LET it == pages[k].items[Len(pages[k].items)]
             IN  it.x - config.pageMargin + it.width + config.itemSpacing
                     > printableWidth

\* C17 -- Failure leaves the page unchanged: when addItem returns false, the
\* mask and the item list of the page are as before the call (a page created
\* for the call is empty and all free).
C17_FailureNoMutation ==
    [][(PlaceStep /\ Failed) =>
            LET k == pageIndex + 1
            IN  /\ Len(pages') = Max(Len(pages), k)
                /\ \A j \in 1..Len(pages) : pages'[j] = pages[j]
                /\ Cells(pages'[k]) = GridBefore(k)
                /\ pages'[k].items = ItemsBefore(k)
      ]_vars

\* a request that exceeds the grid has failed on a page that holds items and
\* on a new page
C17_Witness ==
    /\ pc = "place"
    /\ itemIdx <= Len(todoList)
    /\ pageIndex = 2
    /\ Len(pages) = 2
    /\ pages[1].items # <<>>
    /\ pages[2].items = <<>>
    /\ Cells(pages[2]) = {}
    /\ \/ todoList[itemIdx].width > printableWidth
       \/ todoList[itemIdx].height > printableHeight

\* a call, once entered, runs to its end unless it loops: every step of
\* calculateLayout that can be taken is taken; when the caller calls again is
\* up to the caller.  Calls with one or two batches on the largest paper.
InitFair ==
    /\ Init
    /\ Len(photos) <= 2
    /\ paperSize = [widthMm |-> MaxPaperW, heightMm |-> MaxPaperH]

SpecFair ==
    /\ InitFair
    /\ [][Next]_vars
    /\ WF_vars(Start)
    /\ WF_vars(Expand)
    /\ WF_vars(TryPlace)
    /\ WF_vars(Return)

\* inside a call whose requests all fit a positive printable area, every
\* page holds an item, the first one at grid position (0, 0), and there are
\* no more pages than requests
FreshPageAccepts ==
    (pc \in {"place", "done"} /\ AllFit /\ ~NoPrintableArea) =>
        /\ Len(CurLayout) <= Len(todoList)
        /\ \A k \in 1..Len(CurLayout) :
              /\ CurLayout[k].items # <<>>
              /\ CurLayout[k].items[1].x = config.pageMargin
              /\ CurLayout[k].items[1].y = config.pageMargin

\* C18 -- Termination on satisfiable input: a call whose requests all fit
\* the printable area returns; a page created for a request accepts it at
\* grid position (0, 0), so there are never more pages than requests.
C18_Termination ==
    /\ []FreshPageAccepts
    /\ (pc = "start" /\ AllFit) ~> (pc = "done")

\* a call has returned as many pages as it had requests, one of them filled
\* by a request of exactly the size of the printable area
C18_Witness ==
    /\ pc = "done"
    /\ AllFit
    /\ Len(result) >= 2
    /\ Len(result) = Len(todoList)
    /\ \E k \in 1..Len(result) :
          /\ result[k].items[1].width = printableWidth
          /\ result[k].items[1].height = printableHeight

\* the placed items of the layout, each with its page and its place on it
PlacedAt == {ki \in (1..Len(CurLayout)) \X (1..Len(todoList)) :
                ki[2] <= Len(CurLayout[ki[1]].items)}

\* C19 -- Same-size ordering: of two placed requests of one size, the one
\* earlier in the expansion is on the same or an earlier page, and on the
\* same page at an earlier position of the row-major order.
C19_SameSizeOrder ==
    pc \in {"place", "done"} =>
        \A a, b \in PlacedAt :
            LET ia == CurLayout[a[1]].items[a[2]]
                ib == CurLayout[b[1]].items[b[2]]
            IN  (/\ ia.width = ib.width
                 /\ ia.height = ib.height
                 /\ ia.id[2] < ib.id[2])
                => /\ a[1] <= b[1]
                   /\ a[1] = b[1] => ScanBefore(GridPos(ia), GridPos(ib))

\* two requests of one size, with a request of another size between them in
\* the expansion, are placed on one page, the later one in a lower row
C19_Witness ==
    /\ pc = "done"
    /\ \E a, b \in PlacedAt :
          LET ia == CurLayout[a[1]].items[a[2]]
              ib == CurLayout[b[1]].items[b[2]]
          IN  /\ a[1] = b[1]
              /\ ia.width = ib.width
              /\ ia.height = ib.height
              /\ ia.id[2] + 1 < ib.id[2]
              /\ todoList[ia.id[2] + 2].width # ia.width
              /\ ia.y < ib.y

====
